---------------------------- MODULE Spec2Model ----------------------------
(***************************************************************************)
(* go-ringqueue: a fixed-capacity ring queue (unsafeRQ) and the            *)
(* mutex-guarded coordinator built on it (safeRQ).                         *)
(*                                                                         *)
(* The core buffer is a record; each of its methods is an operator that    *)
(* takes the buffer and returns the buffer after the call with the call's  *)
(* results.  Spec drives one core buffer from a single caller.  SafeSpec   *)
(* drives a coordinator from several threads, one step per lock            *)
(* acquisition, guarded call and select statement.  NewSpec starts before  *)
(* construction: it calls NewUnsafe or NewSafe with valid and invalid      *)
(* policies and then drives the queue that was built, if any.              *)
(*                                                                         *)
(* A select that finds several of its cases ready takes any one of them.   *)
(* A select that finds none ready suspends the thread ("Pop.parked"); the  *)
(* first event on one of its channels (the close of s.closed, a send on    *)
(* s.available, the close of the deadline's Done channel) wakes it and     *)
(* decides its case.  A send on s.available that finds a suspended         *)
(* receiver hands the notification to one of them and leaves the channel's *)
(* buffer empty.  The deadline is "none" after New or Set(zero time),      *)
(* "armed" after Set(a time to come) until its timer fires, "exceeded"     *)
(* after the timer fired or Set(a time past).  Pop's select evaluates      *)
(* s.deadline.Done() on entry ("Pop.Done") and chooses among its cases in  *)
(* a later step ("Pop.select"): the channel it holds is the deadline's     *)
(* current one, or a stale one once a Set that found the deadline          *)
(* exceeded has installed a new channel; a stale channel stays closed.     *)
(***************************************************************************)
EXTENDS Integers, Sequences, FiniteSets, TLC

\* ------------------------------------------------------------------ bounds
MaxCap == 3
MaxPush == 5
MaxElem == 2

Capacities == 0..MaxCap
Elems == 1..MaxElem

\* ------------------------------------------------------- program constants
WhenFullError == 0
WhenFullOverwrite == 1
\* a WhenFull value outside the enumeration (newUnsafe does not validate it)
WhenFullOther == 2
WhenEmptyError == 0
WhenEmptyBlock == 1
\* a WhenEmpty value outside the enumeration
WhenEmptyOther == 2

NoErr == "nil"
ErrFullQueue == "queue is full"
ErrEmptyQueue == "queue is empty"
ErrClosed == "queue is closed"
ErrUnsupported == "unsupported operation"
DeadlineExceeded == "context deadline exceeded"
\* a run-time panic of r.data[r.end] on a zero-length backing array
PanicIndex == "panic: index out of range"

\* the zero value of the element type
Zero == 0

VARIABLES
    rq,            \* the core buffer (unsafeRQ)
    onCloseCalls,  \* the invocations of the onClose finalizer so far, in order
    last,          \* the last core call: its name, argument, results and the buffer before it
    accepted,      \* the elements of the pushes that returned no error, in order
    popped,        \* the elements the successful pops returned, in order
    phase,         \* "fill": only pushes so far; "drain": pushes then only pops; "mixed"
    s,             \* the coordinator (safeRQ): whenEmpty, mutex, closed, closeOnce, available
    deadline,      \* the coordinator's pop deadline: "none", "armed" or "exceeded"
    th,            \* each thread's position in its coordinator call, and the call's locals
    lastRet,       \* the last coordinator call that returned, and its results
    closeReturned, \* some Close() of the coordinator has returned
    calls,         \* the number of coordinator calls started so far
    suspAtClose    \* the threads whose Pop was suspended when the closed signal was broadcast

safeVars == <<s, deadline, th, lastRet, closeReturned, calls, suspAtClose>>

vars == <<rq, onCloseCalls, last, accepted, popped, phase,
          s, deadline, th, lastRet, closeReturned, calls, suspAtClose>>

\* --------------------------------------------------------- the core buffer

newUnsafe(capacity, whenFull, onCloseFunc) ==
    [data |-> [i \in 1..capacity |-> Zero],
     isFull |-> FALSE,
     start |-> 0,
     end |-> 0,
     whenFull |-> whenFull,
     closeOnce |-> FALSE,
     closed |-> FALSE,
     onClose |-> onCloseFunc]

\* the nil a constructor returns with its error
NoQueue == [nil |-> TRUE]

\* a constructor that accepts every empty-policy
NewUnsafe_NoValidation(capacity, whenFull, whenEmpty, onCloseFunc) ==
    [err |-> NoErr, rq |-> newUnsafe(capacity, whenFull, onCloseFunc)]

NewUnsafe(capacity, whenFull, whenEmpty, onCloseFunc) ==
    IF whenEmpty # WhenEmptyError
    THEN [err |-> ErrUnsupported, rq |-> NoQueue]
    ELSE [err |-> NoErr, rq |-> newUnsafe(capacity, whenFull, onCloseFunc)]

\* data[i] of the Go slice (0-based)
At(r, i) == r.data[i + 1]

\* Len() without the closed check
unsafeRQ_Len_NoClosedCheck(r) ==
    LET res == r.end - r.start IN
    IF res < 0 \/ (res = 0 /\ r.isFull)
    THEN Len(r.data) - res
    ELSE res

unsafeRQ_Len(r) ==
    IF r.closed THEN 0
    ELSE LET res == r.end - r.start IN
         IF res < 0 \/ (res = 0 /\ r.isFull)
         THEN Len(r.data) - res
         ELSE res

unsafeRQ_Cap(r) == IF r.closed THEN 0 ELSE Len(r.data)

unsafeRQ_IsFull(r) == IF r.closed THEN FALSE ELSE r.isFull

\* the full flag computed before end is advanced
PushStore_FullBeforeAdvance(r, elem) ==
    LET r1 == [r EXCEPT !.data[r.end + 1] = elem]
        r2 == [r1 EXCEPT !.isFull = (r1.end = r1.start)]
    IN  [r2 EXCEPT !.end = (r2.end + 1) % Len(r2.data)]

PushStore(r, elem) ==
    LET r1 == [r EXCEPT !.data[r.end + 1] = elem]
        r2 == [r1 EXCEPT !.end = (r1.end + 1) % Len(r1.data)]
    IN  [r2 EXCEPT !.isFull = (r2.end = r2.start)]

unsafeRQ_Push(r, elem) ==
    IF r.closed THEN [rq |-> r, len |-> 0, err |-> ErrClosed]
    ELSE IF r.isFull /\ r.whenFull = WhenFullError
    THEN [rq |-> r, len |-> 0, err |-> ErrFullQueue]
    ELSE IF r.isFull /\ r.whenFull # WhenFullOverwrite
    THEN [rq |-> r, len |-> 0, err |-> ErrUnsupported]
    ELSE IF r.end >= Len(r.data)
    THEN [rq |-> r, len |-> 0, err |-> PanicIndex]
    ELSE LET r3 == PushStore(r, elem) IN
         [rq |-> r3, len |-> unsafeRQ_Len(r3), err |-> NoErr]

\* start advanced without the modulo
PopAdvance_NoWrap(r) ==
    [r EXCEPT !.start = r.start + 1, !.isFull = FALSE]

PopAdvance(r) ==
    [r EXCEPT !.start = (r.start + 1) % Len(r.data), !.isFull = FALSE]

\* the element read after start was advanced
unsafeRQ_Pop_ReadAfterAdvance(r) ==
    IF r.closed THEN [rq |-> r, elem |-> Zero, len |-> 0, err |-> ErrClosed]
    ELSE IF ~r.isFull /\ r.start = r.end
    THEN [rq |-> r, elem |-> Zero, len |-> 0, err |-> ErrEmptyQueue]
    ELSE LET r2 == PopAdvance(r) IN
         [rq |-> r2, elem |-> At(r2, r2.start), len |-> unsafeRQ_Len(r2), err |-> NoErr]

unsafeRQ_Pop(r) ==
    IF r.closed THEN [rq |-> r, elem |-> Zero, len |-> 0, err |-> ErrClosed]
    ELSE IF ~r.isFull /\ r.start = r.end
    THEN [rq |-> r, elem |-> Zero, len |-> 0, err |-> ErrEmptyQueue]
    ELSE LET r2 == PopAdvance(r) IN
         [rq |-> r2, elem |-> At(r, r.start), len |-> unsafeRQ_Len(r2), err |-> NoErr]

\* a Peek that removes the element it returns
unsafeRQ_Peek_Advancing(r) ==
    IF r.closed THEN [rq |-> r, elem |-> Zero, len |-> 0, err |-> ErrClosed]
    ELSE IF ~r.isFull /\ r.start = r.end
    THEN [rq |-> r, elem |-> Zero, len |-> 0, err |-> ErrEmptyQueue]
    ELSE [rq |-> PopAdvance(r), elem |-> At(r, r.start), len |-> unsafeRQ_Len(r), err |-> NoErr]

unsafeRQ_Peek(r) ==
    IF r.closed THEN [rq |-> r, elem |-> Zero, len |-> 0, err |-> ErrClosed]
    ELSE IF ~r.isFull /\ r.start = r.end
    THEN [rq |-> r, elem |-> Zero, len |-> 0, err |-> ErrEmptyQueue]
    ELSE [rq |-> r, elem |-> At(r, r.start), len |-> unsafeRQ_Len(r), err |-> NoErr]

unsafeRQ_SetPopDeadline(r, time) == ErrUnsupported

\* what the finalizer receives: the buffer's fields at the call
\* String(): the fixed text of the format and the values printed in its
\* verbs, in order
unsafeRQ_String(r) ==
    IF r.closed
    THEN <<"[RQ closed]">>
    ELSE <<"[RQ full:", r.isFull, " size:", Len(r.data), " start:", r.start,
           " end:", r.end, " data:", r.data, "]">>

OnCloseArgs(r) ==
    [data |-> r.data, start |-> r.start, end |-> r.end, isFull |-> r.isFull]

\* a Close without the once guard: every call runs the finalizer
unsafeRQ_Close_NoOnce(r) ==
    LET r1 == [r EXCEPT !.closeOnce = TRUE, !.closed = TRUE]
        made == IF r1.onClose THEN <<OnCloseArgs(r1)>> ELSE <<>>
    IN  [rq |-> [r1 EXCEPT !.data = <<>>], calls |-> made, err |-> NoErr]

unsafeRQ_Close(r) ==
    IF r.closeOnce THEN [rq |-> r, calls |-> <<>>, err |-> NoErr]
    ELSE LET r1 == [r EXCEPT !.closeOnce = TRUE, !.closed = TRUE]
             made == IF r1.onClose THEN <<OnCloseArgs(r1)>> ELSE <<>>
         IN  [rq |-> [r1 EXCEPT !.data = <<>>], calls |-> made, err |-> NoErr]

\* ------------------------------------------- one caller on a core buffer

Call(op, arg, elem, len, err, pre) ==
    [op |-> op, arg |-> arg, elem |-> elem, len |-> len, err |-> err, pre |-> pre]

\* an invocation of the finalizer: its arguments, the thread that called Close,
\* the holder of the coordinator's mutex (0: none) at that moment, and whether
\* a Close() of the coordinator had already returned
OnCloseCall(args, by, mutex, after) ==
    [args |-> args, by |-> by, mutex |-> mutex, after |-> after]

Invocations(callsMade, by, mutex, after) ==
    [i \in 1..Len(callsMade) |-> OnCloseCall(callsMade[i], by, mutex, after)]

NoThread == 0

\* a thread in no call.  done is the Done channel a Pop's select holds: "none",
\* "current" (the deadline's channel) or "stale" (a replaced, closed channel);
\* vain tells that a notification woke the Pop and its retry found no element
Idle == [pc |-> "idle", len |-> 0, err |-> NoErr, woke |-> "none", done |-> "none",
         vain |-> FALSE]

\* a returned coordinator call: its results, whether a Close() had returned
\* before, whether it was suspended when the closed signal was broadcast, and
\* the last select case that woke it ("none": it never left a select), and
\* whether a notification had woken it for nothing
Ret(op, elem, len, err, afterClose, susp, woke, vain) ==
    [op |-> op, elem |-> elem, len |-> len, err |-> err,
     afterClose |-> afterClose, susp |-> susp, woke |-> woke, vain |-> vain,
     str |-> <<>>]

\* the coordinator's variables while no coordinator exists
NoCoordinator ==
    /\ s = [whenEmpty |-> WhenEmptyError, mutex |-> NoThread, closed |-> FALSE,
            closeOnce |-> FALSE, available |-> 0]
    /\ deadline = "none"
    /\ th = <<>>
    /\ lastRet = Ret("none", Zero, 0, NoErr, FALSE, FALSE, "none", FALSE)
    /\ closeReturned = FALSE
    /\ calls = 0
    /\ suspAtClose = {}

Init ==
    /\ \E capacity \in Capacities, whenFull \in {WhenFullError, WhenFullOverwrite, WhenFullOther},
          onCloseFunc \in BOOLEAN :
          rq = newUnsafe(capacity, whenFull, onCloseFunc)
    /\ onCloseCalls = <<>>
    /\ last = Call("none", Zero, Zero, 0, NoErr, rq)
    /\ accepted = <<>>
    /\ popped = <<>>
    /\ phase = "fill"
    /\ NoCoordinator

Push(elem) ==
    /\ Len(accepted) < MaxPush
    /\ LET res == unsafeRQ_Push(rq, elem) IN
       /\ rq' = res.rq
       /\ last' = Call("Push", elem, Zero, res.len, res.err, rq)
       /\ accepted' = IF res.err = NoErr THEN Append(accepted, elem) ELSE accepted
       /\ phase' = IF phase = "fill" THEN "fill" ELSE "mixed"
    /\ UNCHANGED <<onCloseCalls, popped>>
    /\ UNCHANGED safeVars

Pop ==
    /\ LET res == unsafeRQ_Pop(rq) IN
       /\ rq' = res.rq
       /\ last' = Call("Pop", Zero, res.elem, res.len, res.err, rq)
       /\ popped' = IF res.err = NoErr THEN Append(popped, res.elem) ELSE popped
    /\ phase' = IF phase = "mixed" THEN "mixed" ELSE "drain"
    /\ UNCHANGED <<onCloseCalls, accepted>>
    /\ UNCHANGED safeVars

Peek ==
    /\ LET res == unsafeRQ_Peek(rq) IN
       /\ rq' = res.rq
       /\ last' = Call("Peek", Zero, res.elem, res.len, res.err, rq)
    /\ UNCHANGED <<onCloseCalls, accepted, popped, phase>>
    /\ UNCHANGED safeVars

Close ==
    /\ LET res == unsafeRQ_Close(rq) IN
       /\ rq' = res.rq
       /\ onCloseCalls' = onCloseCalls \o Invocations(res.calls, NoThread, NoThread, FALSE)
       /\ last' = Call("Close", Zero, Zero, 0, res.err, rq)
    /\ UNCHANGED <<accepted, popped, phase>>
    /\ UNCHANGED safeVars

\* the times SetPopDeadline is called with: the zero time, a time still to
\* come, a time already past
DeadlineTimes == {"zero", "future", "past"}

SetPopDeadline(time) ==
    /\ last' = Call("SetPopDeadline", Zero, Zero, 0, unsafeRQ_SetPopDeadline(rq, time), rq)
    /\ UNCHANGED <<rq, onCloseCalls, accepted, popped, phase>>
    /\ UNCHANGED safeVars

Next ==
    \/ \E elem \in Elems : Push(elem)
    \/ Pop
    \/ Peek
    \/ Close
    \/ \E time \in DeadlineTimes : SetPopDeadline(time)

Spec == Init /\ [][Next]_vars

\* ---------------------------------------------------------- the coordinator

NumThreads == 3
MaxCalls == 4
MaxSafeCap == 2

Threads == 1..NumThreads
SafeCapacities == 1..MaxSafeCap

\* the elements a coordinator Push may carry: the pushes are numbered, so that
\* every accepted element is distinct (the queue never inspects an element)
PushElems == {Len(accepted) + 1}

NewSafe(capacity, whenFull, whenEmpty, onCloseFunc) ==
    IF whenEmpty # WhenEmptyError /\ whenEmpty # WhenEmptyBlock
    THEN [err |-> ErrUnsupported, rq |-> NoQueue]
    ELSE [err |-> NoErr,
          rq |-> newUnsafe(capacity, whenFull, onCloseFunc),
          s |-> [whenEmpty |-> whenEmpty, mutex |-> NoThread, closed |-> FALSE,
                 closeOnce |-> FALSE, available |-> 0],
          deadline |-> "none"]

SafeInit ==
    /\ \E capacity \in SafeCapacities, whenFull \in {WhenFullError, WhenFullOverwrite},
          whenEmpty \in {WhenEmptyError, WhenEmptyBlock} :
          LET q == NewSafe(capacity, whenFull, whenEmpty, TRUE) IN
          /\ q.err = NoErr
          /\ rq = q.rq
          /\ s = q.s
          /\ deadline = q.deadline
    /\ th = [t \in Threads |-> Idle]
    /\ lastRet = Ret("none", Zero, 0, NoErr, FALSE, FALSE, "none", FALSE)
    /\ closeReturned = FALSE
    /\ calls = 0
    /\ suspAtClose = {}
    /\ onCloseCalls = <<>>
    /\ last = Call("none", Zero, Zero, 0, NoErr, rq)
    /\ accepted = <<>>
    /\ popped = <<>>
    /\ phase = "fill"

\* the threads whose Pop is suspended in its select
Parked == {u \in Threads : th[u].pc = "Pop.parked"}

\* thr with every thread of set woken out of its select by the given case
Wake(thr, set, case) ==
    [u \in Threads |-> IF u \in set THEN [thr[u] EXCEPT !.pc = "Pop.woken", !.woke = case,
                                                          !.done = "none"]
                                    ELSE thr[u]]

\* thread t's call returns
Return(t, op, elem, len, err) ==
    /\ lastRet' = Ret(op, elem, len, err, closeReturned, t \in suspAtClose, th[t].woke,
                    th[t].vain)
    /\ suspAtClose' = suspAtClose \ {t}

\* a Lock() that does not wait for the holder to unlock
Lock_NoWait(t) == s' = [s EXCEPT !.mutex = t]

\* s.mutex.Lock()
Lock(t) == s.mutex = NoThread /\ s' = [s EXCEPT !.mutex = t]

\* a call begins, on the lowest-numbered thread that is in no call: a thread
\* has no identity beyond the call it carries
Begin(t) ==
    /\ th[t].pc = "idle"
    /\ \A u \in Threads : u < t => th[u].pc # "idle"
    /\ calls < MaxCalls
    /\ calls' = calls + 1

safeRQ_guardedPush_Lock(t) ==
    /\ Begin(t)
    /\ Lock(t)
    /\ th' = [th EXCEPT ![t].pc = "guardedPush"]
    /\ UNCHANGED <<rq, onCloseCalls, last, accepted, popped, phase,
                   deadline, lastRet, closeReturned, suspAtClose>>

\* what guardedPush returns for the buffer's result
guardedPushResult(res) ==
    IF res.err # NoErr THEN [len |-> 0, err |-> res.err]
    ELSE [len |-> res.len, err |-> NoErr]

safeRQ_guardedPush(t, elem) ==
    /\ th[t].pc = "guardedPush"
    /\ LET res == unsafeRQ_Push(rq, elem)
           out == guardedPushResult(res)
       IN
       /\ rq' = res.rq
       /\ accepted' = IF res.err = NoErr THEN Append(accepted, elem) ELSE accepted
       /\ s' = [s EXCEPT !.mutex = NoThread]
       /\ IF s.whenEmpty = WhenEmptyBlock
          THEN /\ th' = [th EXCEPT ![t] = [pc |-> "Push.select", len |-> out.len,
                                           err |-> out.err, woke |-> "none",
                                           done |-> "none", vain |-> FALSE]]
               /\ UNCHANGED <<lastRet, suspAtClose>>
          ELSE /\ th' = [th EXCEPT ![t] = Idle]
               /\ Return(t, "Push", Zero, out.len, out.err)
    /\ UNCHANGED <<onCloseCalls, last, popped, phase, deadline, closeReturned, calls>>

\* a Push whose select never posts the availability notification
PushSelectCases_NoSend(sv, parked) ==
    IF sv.closed THEN {"closed"} ELSE {"default"}

\* a Push whose select has no default case: the send waits for a free slot
PushSelectCases_NoDefault(sv, parked) ==
    (IF sv.closed THEN {"closed"} ELSE {})
    \cup (IF sv.available = 0 \/ parked # {} THEN {"send"} ELSE {})

\* the cases of Push's select that can proceed
PushSelectCases(sv, parked) ==
    LET ready == (IF sv.closed THEN {"closed"} ELSE {})
                 \cup (IF sv.available = 0 \/ parked # {} THEN {"send"} ELSE {})
    IN  IF ready = {} THEN {"default"} ELSE ready

safeRQ_Push_select(t) ==
    /\ th[t].pc = "Push.select"
    /\ \/ /\ "closed" \in PushSelectCases(s, Parked)
          /\ th' = [th EXCEPT ![t] = Idle]
          /\ Return(t, "Push", Zero, 0, ErrClosed)
          /\ UNCHANGED s
       \/ /\ "send" \in PushSelectCases(s, Parked)
          /\ Parked = {}
          /\ s' = [s EXCEPT !.available = 1]
          /\ th' = [th EXCEPT ![t] = Idle]
          /\ Return(t, "Push", Zero, th[t].len, th[t].err)
       \/ /\ "send" \in PushSelectCases(s, Parked)
          /\ \E u \in Parked :
                th' = [th EXCEPT ![u].pc = "Pop.retry", ![u].woke = "available",
                                 ![u].done = "none",
                                 ![t] = Idle]
          /\ Return(t, "Push", Zero, th[t].len, th[t].err)
          /\ UNCHANGED s
       \/ /\ "default" \in PushSelectCases(s, Parked)
          /\ th' = [th EXCEPT ![t] = Idle]
          /\ Return(t, "Push", Zero, th[t].len, th[t].err)
          /\ UNCHANGED s
    /\ UNCHANGED <<rq, onCloseCalls, last, accepted, popped, phase,
                   deadline, closeReturned, calls>>

safeRQ_guardedPop_Lock(t) ==
    /\ \/ Begin(t)
       \/ th[t].pc = "Pop.retry" /\ UNCHANGED calls
    /\ Lock(t)
    /\ th' = [th EXCEPT ![t].pc = "guardedPop"]
    /\ UNCHANGED <<rq, onCloseCalls, last, accepted, popped, phase,
                   deadline, lastRet, closeReturned, suspAtClose>>

\* a Pop that returns EmptyQueue with either empty-policy
PopAfterGuarded_NeverWaits(whenEmpty, res) ==
    IF res.err = NoErr
    THEN [returns |-> TRUE, elem |-> res.elem, len |-> res.len, err |-> NoErr]
    ELSE [returns |-> TRUE, elem |-> Zero, len |-> 0, err |-> ErrEmptyQueue]

\* Pop after guardedPop returned res: the call returns, or goes on to the select
PopAfterGuarded(whenEmpty, res) ==
    IF res.err = NoErr
    THEN [returns |-> TRUE, elem |-> res.elem, len |-> res.len, err |-> NoErr]
    ELSE IF whenEmpty = WhenEmptyError
    THEN [returns |-> TRUE, elem |-> Zero, len |-> 0, err |-> ErrEmptyQueue]
    ELSE [returns |-> FALSE, elem |-> Zero, len |-> 0, err |-> res.err]

safeRQ_guardedPop(t) ==
    /\ th[t].pc = "guardedPop"
    /\ LET res == unsafeRQ_Pop(rq)
           out == PopAfterGuarded(s.whenEmpty, res)
       IN
       /\ rq' = res.rq
       /\ popped' = IF res.err = NoErr THEN Append(popped, res.elem) ELSE popped
       /\ s' = [s EXCEPT !.mutex = NoThread]
       /\ IF out.returns
          THEN /\ th' = [th EXCEPT ![t] = Idle]
               /\ Return(t, "Pop", out.elem, out.len, out.err)
          ELSE /\ th' = [th EXCEPT ![t].pc = "Pop.Done",
                                    ![t].vain = @ \/ th[t].woke = "available"]
               /\ UNCHANGED <<lastRet, suspAtClose>>
    /\ UNCHANGED <<onCloseCalls, last, accepted, phase, deadline, closeReturned, calls>>

\* the select is entered: s.deadline.Done() returns the deadline's current channel
safeRQ_Pop_Done(t) ==
    /\ th[t].pc = "Pop.Done"
    /\ th' = [th EXCEPT ![t].pc = "Pop.select", ![t].done = "current"]
    /\ UNCHANGED <<rq, onCloseCalls, last, accepted, popped, phase, s,
                   deadline, lastRet, closeReturned, calls, suspAtClose>>

\* the state of the Done channel that thread t's select holds
DoneChannel(t) == IF th[t].done = "stale" THEN "exceeded" ELSE deadline

\* a select whose deadline case is ready as soon as a deadline is set
PopSelectCases_ArmedReady(sv, dl) ==
    (IF sv.closed THEN {"closed"} ELSE {})
    \cup (IF sv.available > 0 THEN {"available"} ELSE {})
    \cup (IF dl # "none" THEN {"deadline"} ELSE {})

\* a select without the deadline case
PopSelectCases_NoDeadline(sv, dl) ==
    (IF sv.closed THEN {"closed"} ELSE {})
    \cup (IF sv.available > 0 THEN {"available"} ELSE {})

\* the cases of Pop's select that can proceed
PopSelectCases(sv, dl) ==
    (IF sv.closed THEN {"closed"} ELSE {})
    \cup (IF sv.available > 0 THEN {"available"} ELSE {})
    \cup (IF dl = "exceeded" THEN {"deadline"} ELSE {})

\* the closed case returning the deadline's error
PopCaseErr_Swapped(case) == IF case = "closed" THEN DeadlineExceeded ELSE ErrClosed

\* the error a Pop returns from the select case that fired
PopCaseErr(case) == IF case = "closed" THEN ErrClosed ELSE DeadlineExceeded

safeRQ_Pop_select(t) ==
    /\ th[t].pc = "Pop.select"
    /\ \/ /\ "closed" \in PopSelectCases(s, DoneChannel(t))
          /\ th' = [th EXCEPT ![t] = Idle]
          /\ Return(t, "Pop", Zero, 0, PopCaseErr("closed"))
          /\ UNCHANGED s
       \/ /\ "available" \in PopSelectCases(s, DoneChannel(t))
          /\ s' = [s EXCEPT !.available = 0]
          /\ th' = [th EXCEPT ![t].pc = "Pop.retry", ![t].woke = "available",
                                 ![t].done = "none"]
          /\ UNCHANGED <<lastRet, suspAtClose>>
       \/ /\ "deadline" \in PopSelectCases(s, DoneChannel(t))
          /\ th' = [th EXCEPT ![t] = Idle]
          /\ Return(t, "Pop", Zero, 0, PopCaseErr("deadline"))
          /\ UNCHANGED s
       \/ /\ PopSelectCases(s, DoneChannel(t)) = {}
          /\ th' = [th EXCEPT ![t].pc = "Pop.parked"]
          /\ UNCHANGED <<s, lastRet, suspAtClose>>
    /\ UNCHANGED <<rq, onCloseCalls, last, accepted, popped, phase,
                   deadline, closeReturned, calls>>

\* a Pop woken out of its select by the closed signal or the deadline returns
safeRQ_Pop_woken(t) ==
    /\ th[t].pc = "Pop.woken"
    /\ th' = [th EXCEPT ![t] = Idle]
    /\ Return(t, "Pop", Zero, 0, PopCaseErr(th[t].woke))
    /\ UNCHANGED <<rq, onCloseCalls, last, accepted, popped, phase,
                   s, deadline, closeReturned, calls>>

safeRQ_Close_Lock(t) ==
    /\ Begin(t)
    /\ Lock(t)
    /\ th' = [th EXCEPT ![t].pc = "Close.once"]
    /\ UNCHANGED <<rq, onCloseCalls, last, accepted, popped, phase,
                   deadline, lastRet, closeReturned, suspAtClose>>

\* s.closeOnce.Do(func() { close(s.closed) })
safeRQ_Close_once(t) ==
    /\ th[t].pc = "Close.once"
    /\ IF ~s.closeOnce
       THEN /\ s' = [s EXCEPT !.closeOnce = TRUE, !.closed = TRUE]
            /\ th' = [Wake(th, Parked, "closed") EXCEPT ![t].pc = "Close.rq"]
            /\ suspAtClose' = suspAtClose \cup Parked
       ELSE /\ th' = [th EXCEPT ![t].pc = "Close.rq"]
            /\ UNCHANGED <<s, suspAtClose>>
    /\ UNCHANGED <<rq, onCloseCalls, last, accepted, popped, phase,
                   deadline, lastRet, closeReturned, calls>>

\* return s.rq.Close(), and the deferred Unlock
safeRQ_Close_rq(t) ==
    /\ th[t].pc = "Close.rq"
    /\ LET res == unsafeRQ_Close(rq) IN
       /\ rq' = res.rq
       /\ onCloseCalls' = onCloseCalls \o Invocations(res.calls, t, s.mutex, closeReturned)
       /\ last' = IF rq.closed THEN last ELSE Call("Close", Zero, Zero, 0, res.err, rq)
       /\ Return(t, "Close", Zero, 0, res.err)
    /\ s' = [s EXCEPT !.mutex = NoThread]
    /\ th' = [th EXCEPT ![t] = Idle]
    /\ closeReturned' = TRUE
    /\ UNCHANGED <<accepted, popped, phase, deadline, calls>>

\* s.mutex.Lock() of Peek, Len, Cap or String
safeRQ_Read_Lock(t, op) ==
    /\ Begin(t)
    /\ Lock(t)
    /\ th' = [th EXCEPT ![t].pc = op]
    /\ UNCHANGED <<rq, onCloseCalls, last, accepted, popped, phase,
                   deadline, lastRet, closeReturned, suspAtClose>>

safeRQ_Peek_Lock(t) == safeRQ_Read_Lock(t, "Peek")

\* return s.rq.Peek(), and the deferred Unlock
safeRQ_Peek(t) ==
    /\ th[t].pc = "Peek"
    /\ LET res == unsafeRQ_Peek(rq) IN
       /\ rq' = res.rq
       /\ Return(t, "Peek", res.elem, res.len, res.err)
    /\ s' = [s EXCEPT !.mutex = NoThread]
    /\ th' = [th EXCEPT ![t] = Idle]
    /\ UNCHANGED <<onCloseCalls, last, accepted, popped, phase,
                   deadline, closeReturned, calls>>

safeRQ_Len_Lock(t) == safeRQ_Read_Lock(t, "Len")

\* return s.rq.Len(), and the deferred Unlock
safeRQ_Len(t) ==
    /\ th[t].pc = "Len"
    /\ Return(t, "Len", Zero, unsafeRQ_Len(rq), NoErr)
    /\ s' = [s EXCEPT !.mutex = NoThread]
    /\ th' = [th EXCEPT ![t] = Idle]
    /\ UNCHANGED <<rq, onCloseCalls, last, accepted, popped, phase,
                   deadline, closeReturned, calls>>

safeRQ_String_Lock(t) == safeRQ_Read_Lock(t, "String")

\* return s.rq.String(), and the deferred Unlock
safeRQ_String(t) ==
    /\ th[t].pc = "String"
    /\ lastRet' = [Ret("String", Zero, 0, NoErr, closeReturned, t \in suspAtClose,
                       th[t].woke, th[t].vain) EXCEPT !.str = unsafeRQ_String(rq)]
    /\ suspAtClose' = suspAtClose \ {t}
    /\ s' = [s EXCEPT !.mutex = NoThread]
    /\ th' = [th EXCEPT ![t] = Idle]
    /\ UNCHANGED <<rq, onCloseCalls, last, accepted, popped, phase,
                   deadline, closeReturned, calls>>

safeRQ_Cap_Lock(t) == safeRQ_Read_Lock(t, "Cap")

\* return s.rq.Cap(), and the deferred Unlock
safeRQ_Cap(t) ==
    /\ th[t].pc = "Cap"
    /\ Return(t, "Cap", Zero, unsafeRQ_Cap(rq), NoErr)
    /\ s' = [s EXCEPT !.mutex = NoThread]
    /\ th' = [th EXCEPT ![t] = Idle]
    /\ UNCHANGED <<rq, onCloseCalls, last, accepted, popped, phase,
                   deadline, closeReturned, calls>>

\* deadline.Set(t): the deadline after the call
DeadlineSet(time) ==
    IF time = "zero" THEN "none"
    ELSE IF time = "future" THEN "armed"
    ELSE "exceeded"

\* Set on an exceeded deadline installs a new channel: the selects that hold
\* the old one keep a closed channel
Replaced(thr) ==
    [u \in Threads |-> IF thr[u].done = "current" THEN [thr[u] EXCEPT !.done = "stale"]
                                                 ELSE thr[u]]

safeRQ_SetPopDeadline(t, time) ==
    /\ Begin(t)
    /\ IF s.whenEmpty # WhenEmptyBlock
       THEN /\ Return(t, "SetPopDeadline", Zero, 0, ErrUnsupported)
            /\ UNCHANGED <<deadline, th>>
       ELSE /\ deadline' = DeadlineSet(time)
            /\ LET th1 == IF deadline = "exceeded" THEN Replaced(th) ELSE th IN
               th' = IF deadline' = "exceeded" THEN Wake(th1, Parked, "deadline") ELSE th1
            /\ Return(t, "SetPopDeadline", Zero, 0, NoErr)
    /\ UNCHANGED <<rq, onCloseCalls, last, accepted, popped, phase, s, closeReturned>>

\* the armed deadline's timer fires
DeadlineFire ==
    /\ deadline = "armed"
    /\ deadline' = "exceeded"
    /\ th' = Wake(th, Parked, "deadline")
    /\ UNCHANGED <<rq, onCloseCalls, last, accepted, popped, phase,
                   s, lastRet, closeReturned, calls, suspAtClose>>

\* the steps of thread t inside a call it has begun
Resume(t) ==
    \/ \E elem \in PushElems : safeRQ_guardedPush(t, elem)
    \/ safeRQ_Push_select(t)
    \/ th[t].pc = "Pop.retry" /\ safeRQ_guardedPop_Lock(t)
    \/ safeRQ_guardedPop(t)
    \/ safeRQ_Pop_Done(t)
    \/ safeRQ_Pop_select(t)
    \/ safeRQ_Pop_woken(t)
    \/ safeRQ_Close_once(t)
    \/ safeRQ_Close_rq(t)
    \/ safeRQ_Peek(t)
    \/ safeRQ_Len(t)
    \/ safeRQ_String(t)
    \/ safeRQ_Cap(t)

SafeNext ==
    \/ \E t \in Threads :
        \/ safeRQ_guardedPush_Lock(t)
        \/ \E elem \in PushElems : safeRQ_guardedPush(t, elem)
        \/ safeRQ_Push_select(t)
        \/ safeRQ_guardedPop_Lock(t)
        \/ safeRQ_guardedPop(t)
        \/ safeRQ_Pop_Done(t)
        \/ safeRQ_Pop_select(t)
        \/ safeRQ_Pop_woken(t)
        \/ safeRQ_Close_Lock(t)
        \/ safeRQ_Close_once(t)
        \/ safeRQ_Close_rq(t)
        \/ safeRQ_Peek_Lock(t)
        \/ safeRQ_Peek(t)
        \/ safeRQ_Len_Lock(t)
        \/ safeRQ_Len(t)
        \/ safeRQ_String_Lock(t)
        \/ safeRQ_String(t)
        \/ safeRQ_Cap_Lock(t)
        \/ safeRQ_Cap(t)
        \/ \E time \in DeadlineTimes : safeRQ_SetPopDeadline(t, time)
    \/ DeadlineFire

SafeSpec == SafeInit /\ [][SafeNext]_vars

\* every thread inside a call is eventually scheduled
SafeFairSpec == SafeSpec /\ \A t \in Threads : WF_vars(Resume(t))

\* ---------------------------------------------------------- construction

\* the empty-policies a constructor is called with
WhenEmptyValues == {WhenEmptyError, WhenEmptyBlock, WhenEmptyOther}

\* no constructor has been called
NewInit ==
    /\ rq = NoQueue
    /\ onCloseCalls = <<>>
    /\ last = Call("none", Zero, Zero, 0, NoErr, NoQueue)
    /\ accepted = <<>>
    /\ popped = <<>>
    /\ phase = "fill"
    /\ NoCoordinator

NewUnsafe_Call(capacity, whenFull, whenEmpty, onCloseFunc) ==
    /\ rq = NoQueue /\ last.op = "none"
    /\ LET q == NewUnsafe(capacity, whenFull, whenEmpty, onCloseFunc) IN
       /\ rq' = q.rq
       /\ last' = Call("NewUnsafe", whenEmpty, Zero, 0, q.err, rq)
    /\ UNCHANGED <<onCloseCalls, accepted, popped, phase>>
    /\ UNCHANGED safeVars

NewSafe_Call(capacity, whenFull, whenEmpty, onCloseFunc) ==
    /\ rq = NoQueue /\ last.op = "none"
    /\ LET q == NewSafe(capacity, whenFull, whenEmpty, onCloseFunc) IN
       /\ rq' = q.rq
       /\ last' = Call("NewSafe", whenEmpty, Zero, 0, q.err, rq)
       /\ IF q.err = NoErr
          THEN /\ s' = q.s
               /\ deadline' = q.deadline
               /\ th' = [t \in Threads |-> Idle]
          ELSE UNCHANGED <<s, deadline, th>>
    /\ UNCHANGED <<onCloseCalls, accepted, popped, phase,
                   lastRet, closeReturned, calls, suspAtClose>>

\* a constructor returned a plain buffer, or a coordinator
CoreBuilt == rq # NoQueue /\ th = <<>>
SafeBuilt == rq # NoQueue /\ th # <<>>

NewNext ==
    \/ \E capacity \in Capacities,
          whenFull \in {WhenFullError, WhenFullOverwrite, WhenFullOther},
          whenEmpty \in WhenEmptyValues, onCloseFunc \in BOOLEAN :
          NewUnsafe_Call(capacity, whenFull, whenEmpty, onCloseFunc)
    \/ \E capacity \in SafeCapacities, whenFull \in {WhenFullError, WhenFullOverwrite},
          whenEmpty \in WhenEmptyValues :
          NewSafe_Call(capacity, whenFull, whenEmpty, TRUE)
    \/ CoreBuilt /\ Next
    \/ SafeBuilt /\ SafeNext

NewSpec == NewInit /\ [][NewNext]_vars

\* ------------------------------------------------ claims on the core buffer

\* the number of elements the buffer holds: accepted pushes minus successful pops
Stored == Len(accepted) - Len(popped)

\* the same number before the last call
StoredBefore ==
    Stored - (IF last.op = "Push" /\ last.err = NoErr THEN 1 ELSE 0)
           + (IF last.op = "Pop" /\ last.err = NoErr THEN 1 ELSE 0)

DataCall == last.op \in {"Push", "Pop", "Peek"}

InRange(n, r) == 0 <= n /\ n <= unsafeRQ_Cap(r)

\* C1: on an open buffer with the Error full-policy, after every Push, Pop or
\* Peek, Len() and the length a successful call returned equal the number of
\* stored elements (accepted pushes minus successful pops), and Len() <= Cap().
C1_LenIsNetEnqueued ==
    (rq.whenFull = WhenFullError /\ ~rq.closed) =>
        /\ unsafeRQ_Len(rq) = Stored
        /\ unsafeRQ_Len(rq) <= unsafeRQ_Cap(rq)
        /\ (DataCall /\ last.err = NoErr => last.len = Stored)

\* C2: with the Error full-policy, the popped values are a prefix of the
\* accepted pushed values, in the same order: every successful Pop returns the
\* oldest accepted element not yet popped, also across a wrap of start and end.
C2_FifoOrder ==
    rq.whenFull = WhenFullError =>
        /\ Len(popped) <= Len(accepted)
        /\ popped = SubSeq(accepted, 1, Len(popped))
        /\ (last.op = "Pop" /\ last.err = NoErr => last.elem = accepted[Len(popped)])

\* a successful Pop of a buffer whose elements wrap around the end of the array,
\* after an earlier Pop returned another value
C2_Witness ==
    /\ rq.whenFull = WhenFullError
    /\ last.op = "Pop" /\ last.err = NoErr
    /\ last.pre.end < last.pre.start
    /\ Len(popped) >= 3
    /\ popped[Len(popped)] # popped[Len(popped) - 1]

\* C3: with the Overwrite full-policy and capacity C >= 1, pushing C+K elements
\* (K > 0) into the empty buffer and then popping until EmptyQueue yields
\* exactly the last C pushed elements, oldest first.
C3_OverwriteKeepsLastCap ==
    ( /\ rq.whenFull = WhenFullOverwrite /\ ~rq.closed
      /\ unsafeRQ_Cap(rq) >= 1
      /\ phase = "drain"
      /\ last.op = "Pop" /\ last.err = ErrEmptyQueue
      /\ Len(accepted) > unsafeRQ_Cap(rq) ) =>
        popped = SubSeq(accepted, Len(accepted) - unsafeRQ_Cap(rq) + 1, Len(accepted))

\* the second-oldest element of a full buffer r (the pushed element when the
\* capacity is 1)
SecondOldest(r, pushed) ==
    IF Len(r.data) = 1 THEN pushed ELSE At(r, (r.start + 1) % Len(r.data))

\* C4: with the Overwrite full-policy, Len() and the lengths Push, Pop and Peek
\* return are between 0 and Cap() in every reachable state, and a Push onto a
\* full buffer drops exactly the oldest element: the next Pop returns the
\* second-oldest one.
C4_OverwriteLenAndDrop ==
    (rq.whenFull = WhenFullOverwrite /\ ~rq.closed) =>
        /\ InRange(unsafeRQ_Len(rq), rq)
        /\ (DataCall => InRange(last.len, rq))
        /\ (last.op = "Push" /\ last.err = NoErr /\ unsafeRQ_IsFull(last.pre) =>
                LET nextPop == unsafeRQ_Pop(rq) IN
                /\ nextPop.err = NoErr
                /\ nextPop.elem = SecondOldest(last.pre, last.arg))

\* C5: with the Error full-policy, a Push on a full buffer returns FullQueue and
\* leaves data, start, end and isFull as they were; a Push on a buffer that is
\* not full never returns FullQueue.  Full is IsFull(), which for a capacity
\* >= 1 is the buffer holding capacity elements.
C5_FullPushRejected ==
    (last.op = "Push" /\ last.pre.whenFull = WhenFullError /\ ~last.pre.closed) =>
        /\ (unsafeRQ_IsFull(last.pre) => last.err = ErrFullQueue /\ rq = last.pre)
        /\ (~unsafeRQ_IsFull(last.pre) => last.err # ErrFullQueue)
        /\ (unsafeRQ_Cap(last.pre) >= 1 =>
                /\ (StoredBefore = unsafeRQ_Cap(last.pre) =>
                        last.err = ErrFullQueue /\ rq = last.pre)
                /\ (StoredBefore < unsafeRQ_Cap(last.pre) => last.err = NoErr))

\* a Push rejected by a full buffer whose start is not at index 0
C5_Witness ==
    /\ last.op = "Push" /\ last.err = ErrFullQueue
    /\ last.pre.start > 0
    /\ Len(last.pre.data) >= 2
    /\ rq = last.pre

\* no element stored in r: start = end without the full flag (and, with the
\* Error policy, as many pops as accepted pushes)
IsEmpty(r) == ~r.isFull /\ r.start = r.end

\* C6: on an open buffer, Pop and Peek with no element stored return EmptyQueue
\* and leave data, start, end and isFull unchanged; Peek never changes them, and
\* on a non-empty buffer returns the element an immediately following Pop
\* returns.
C6_EmptyAndPeekFrame ==
    /\ (last.op \in {"Pop", "Peek"} /\ ~last.pre.closed
            /\ (IsEmpty(last.pre) \/ (last.pre.whenFull = WhenFullError /\ StoredBefore = 0)) =>
            last.err = ErrEmptyQueue /\ rq = last.pre)
    /\ (last.op = "Peek" => rq = last.pre)
    /\ (last.op = "Peek" /\ ~last.pre.closed /\ ~IsEmpty(last.pre) =>
            LET nextPop == unsafeRQ_Pop(rq) IN
            /\ last.err = NoErr
            /\ nextPop.err = NoErr
            /\ nextPop.elem = last.elem
            /\ (last.pre.whenFull = WhenFullError => last.elem = accepted[Len(popped) + 1]))

\* a successful Peek of a buffer whose elements wrap around the end of the array
C6_Witness ==
    /\ last.op = "Peek" /\ last.err = NoErr
    /\ last.pre.end < last.pre.start
    /\ last.elem # Zero
    /\ Len(popped) >= 2

\* C7: once Close() was called, Push, Pop and Peek return Closed whatever the
\* buffer held and whatever the full-policy, Len() and Cap() return 0, and no
\* later call reopens the buffer.
C7_ClosedIsFinal ==
    /\ [](rq.closed =>
            /\ unsafeRQ_Len(rq) = 0
            /\ unsafeRQ_Cap(rq) = 0
            /\ (DataCall /\ last.pre.closed => last.err = ErrClosed /\ rq = last.pre))
    /\ [][rq.closed => rq'.closed]_vars

\* a Pop after Close on a buffer that held an element when it was closed
C7_Witness ==
    /\ rq.closed
    /\ last.op = "Pop" /\ last.pre.closed /\ last.err = ErrClosed
    /\ Stored > 0
    /\ last.pre.end # last.pre.start

\* C20: on an open buffer of capacity C >= 1, with either full-policy, after
\* any sequence of Push, Pop and Peek: 0 <= start < C, 0 <= end < C, and isFull
\* implies start = end.
C20_IndicesInRange ==
    (~rq.closed /\ Len(rq.data) >= 1) =>
        /\ 0 <= rq.start /\ rq.start < Len(rq.data)
        /\ 0 <= rq.end /\ rq.end < Len(rq.data)
        /\ (rq.isFull => rq.start = rq.end)

\* a Push has filled a buffer of capacity >= 2 whose start and end have both
\* wrapped around to the last slot of the array
C20_Witness ==
    /\ ~rq.closed /\ Len(rq.data) >= 2
    /\ last.op = "Push" /\ last.err = NoErr
    /\ rq.isFull
    /\ rq.start = Len(rq.data) - 1 /\ rq.end = rq.start
    /\ Len(popped) > Len(rq.data)

\* C21: on an open buffer of capacity >= 1, isFull and IsFull() agree; with
\* the Error full-policy isFull holds exactly when the number of stored
\* elements is the capacity; a successful Push onto a full buffer (Overwrite)
\* leaves isFull true, and a successful Pop leaves it false.
C21_IsFullIffAtCapacity ==
    (~rq.closed /\ Len(rq.data) >= 1) =>
        /\ unsafeRQ_IsFull(rq) = rq.isFull
        /\ (rq.whenFull = WhenFullError => (rq.isFull <=> Stored = unsafeRQ_Cap(rq)))
        /\ (last.op = "Push" /\ last.err = NoErr /\ last.pre.isFull => rq.isFull)
        /\ (last.op = "Pop" /\ last.err = NoErr => ~rq.isFull)

\* ------------------------------------------------ claims on the coordinator

\* the elements a finalizer's arguments hold, oldest first
Contents(a) ==
    LET n == IF a.isFull THEN Len(a.data)
             ELSE IF Len(a.data) = 0 THEN 0
             ELSE (a.end - a.start + Len(a.data)) % Len(a.data)
    IN  [i \in 1..n |-> a.data[((a.start + i - 1) % Len(a.data)) + 1]]

\* C8: Close() never returns an error and is idempotent: over any number of
\* sequential and concurrent Close() calls the finalizer runs exactly once, in
\* the first Close, with the coordinator's mutex held by the closing thread, and
\* receives data, start, end and isFull as they were just before the close,
\* the array not yet released.
C8_FinalizerOnce ==
    /\ (lastRet.op = "Close" => lastRet.err = NoErr)
    /\ Len(onCloseCalls) <= 1
    /\ (closeReturned => Len(onCloseCalls) = 1)
    /\ (Len(onCloseCalls) = 1 =>
            LET c == onCloseCalls[1] IN
            /\ ~c.after
            /\ c.by # NoThread /\ c.mutex = c.by
            /\ last.op = "Close" /\ ~last.pre.closed
            /\ c.args = OnCloseArgs(last.pre)
            /\ Len(c.args.data) >= 1
            /\ c.args.start = rq.start /\ c.args.end = rq.end /\ c.args.isFull = rq.isFull
            /\ (rq.whenFull = WhenFullError =>
                    Contents(c.args) = SubSeq(accepted, Len(popped) + 1, Len(accepted))))

\* a second Close() has returned, after a first one whose finalizer received
\* a buffer holding an element, while a third Close() holds the mutex
C8_Witness ==
    /\ lastRet.op = "Close" /\ lastRet.afterClose
    /\ Len(onCloseCalls) = 1
    /\ Contents(onCloseCalls[1].args) # <<>>
    /\ \E t \in Threads : th[t].pc = "Close.once"

\* C9: once a Close() of the coordinator has returned, every Push and every
\* Pop that returns afterwards returns Closed, with either empty-policy and
\* whatever the deadline and the availability notification.
C9_ClosedAfterClose ==
    (lastRet.op \in {"Push", "Pop"} /\ lastRet.afterClose) => lastRet.err = ErrClosed

\* C10: with the Block empty-policy, every Pop that is suspended when Close()
\* broadcasts the closed signal eventually returns, and returns Closed.  The
\* signal is broadcast once, so suspAtClose only loses threads afterwards.
C10_CloseWakesPops ==
    /\ [](lastRet.susp => lastRet.op = "Pop" /\ lastRet.err = ErrClosed)
    /\ (suspAtClose # {}) ~> (suspAtClose = {})

\* two Pops were suspended when the coordinator was closed: one has returned,
\* the other has not yet
C10_Witness ==
    /\ lastRet.susp /\ lastRet.op = "Pop" /\ lastRet.err = ErrClosed
    /\ suspAtClose # {}
    /\ s.whenEmpty = WhenEmptyBlock

\* the threads inside a Pop
PopPcs == {"guardedPop", "Pop.Done", "Pop.select", "Pop.parked", "Pop.woken", "Pop.retry"}
InPop == {t \in Threads : th[t].pc \in PopPcs}

\* the step on which thread t's Pop returns
PopReturns(t) == th[t].pc \in PopPcs /\ th'[t].pc = "idle"

\* thread t's Pop has observed the buffer empty and has not returned
ObservedEmpty(t) ==
    \/ th[t].pc \in {"Pop.Done", "Pop.select", "Pop.parked", "Pop.woken", "Pop.retry"}
    \/ th[t].pc = "guardedPop" /\ th[t].woke = "available"

\* the threads whose Push stored its element and has yet to run its select
PushSucceeded == {t \in Threads : th[t].pc = "Push.select" /\ th[t].err = NoErr}

Pushed(e) == \E i \in 1..Len(accepted) : accepted[i] = e

\* C11: with the Block empty-policy, while the coordinator is open and no
\* deadline is set (none that expired during the Pop's select either: its
\* expiry did not wake the Pop and the select holds no expired channel), a
\* Pop returns only with an element some successful Push
\* stored and with no error (the oldest one not yet popped under the Error
\* full-policy): it does not return before a Push has succeeded.  And when a
\* Push has stored an element while one Pop, the only Pop in progress, has
\* observed the buffer empty, that Pop eventually returns, unless the coordinator is closed,
\* a deadline is set or another Pop begins meanwhile.
C11_BlockingPop ==
    /\ [][\A t \in Threads :
            ( /\ PopReturns(t)
              /\ s.whenEmpty = WhenEmptyBlock
              /\ ~s.closed
              /\ deadline = "none" /\ th[t].woke # "deadline"
              /\ th[t].done # "stale" ) =>
                /\ Len(accepted) > 0
                /\ lastRet'.op = "Pop" /\ lastRet'.err = NoErr
                /\ popped' = Append(popped, lastRet'.elem)
                /\ Pushed(lastRet'.elem)
                /\ (rq.whenFull = WhenFullError =>
                        lastRet'.elem = accepted[Len(popped')])]_vars
    /\ ( /\ s.whenEmpty = WhenEmptyBlock /\ ~s.closed /\ deadline = "none"
         /\ Cardinality(InPop) = 1
         /\ \A t \in InPop : ObservedEmpty(t)
         /\ PushSucceeded # {} /\ ~IsEmpty(rq) )
        ~> (InPop = {} \/ Cardinality(InPop) > 1 \/ s.closed \/ deadline # "none")

\* a Pop that waited in its select for the only Push made has returned that
\* Push's element
C11_Witness ==
    /\ s.whenEmpty = WhenEmptyBlock /\ ~s.closed /\ deadline = "none"
    /\ lastRet.op = "Pop" /\ lastRet.err = NoErr /\ lastRet.woke = "available"
    /\ Len(accepted) = 1 /\ lastRet.elem = accepted[1]
    /\ popped = accepted

\* the threads whose Pop has observed the buffer empty and has not returned
Waiting == {t \in Threads : ObservedEmpty(t)}

\* thread t takes a step of its call, or is woken
Moves(t) == th'[t] # th[t]

\* the threads whose suspended Pop the deadline's expiry woke
WokenByDeadline == {t \in Threads : th[t].pc = "Pop.woken" /\ th[t].woke = "deadline"}

\* an expired deadline on the open, empty buffer with a Pop that observed it empty
ExpiredOnWaiting ==
    /\ s.whenEmpty = WhenEmptyBlock /\ ~s.closed
    /\ deadline = "exceeded"
    /\ IsEmpty(rq)
    /\ Waiting # {}

\* C12 as stated: with the Block empty-policy, a Pop returns DeadlineExceeded
\* only while the deadline is set and expired, never while it is unset,
\* cleared or still to come.
C12_OnlyWhileExpired ==
    [][\A t \in Threads :
          (PopReturns(t) /\ lastRet'.op = "Pop" /\ lastRet'.err = DeadlineExceeded) =>
              s.whenEmpty = WhenEmptyBlock /\ deadline = "exceeded"]_vars

\* C12, amended: with the Block empty-policy, a Pop returns DeadlineExceeded
\* only when the deadline was expired at some moment while the Pop was in its
\* select: it is expired when the select chooses, or its expiry woke the
\* suspended Pop, or the select holds the channel of a deadline that a
\* SetPopDeadline found expired and replaced meanwhile (never when the
\* deadline has been unset, cleared or still to come throughout the select).
\* A Pop is woken by the deadline only on the step that makes it expire, and
\* that step wakes every suspended Pop; a select's channel becomes a replaced
\* one only on a SetPopDeadline step that finds the deadline expired.  A Pop
\* the expiry woke returns DeadlineExceeded, and so does every Pop that
\* returns while the coordinator is open and the buffer empty.  Every Pop the
\* expiry woke eventually returns, and once the deadline has expired the Pops
\* that observed the open buffer empty all eventually return, unless an
\* element is pushed, the coordinator is closed or the deadline is set again;
\* a pending stale notification only makes a Pop retry.
C12_DeadlineExpiry ==
    /\ [][\A t \in Threads :
            /\ (PopReturns(t) /\ lastRet'.err = DeadlineExceeded =>
                    /\ s.whenEmpty = WhenEmptyBlock
                    /\ \/ th[t].pc = "Pop.select" /\ deadline = "exceeded"
                       \/ th[t].pc = "Pop.woken" /\ th[t].woke = "deadline"
                       \/ th[t].pc = "Pop.select" /\ th[t].done = "stale")
            /\ (th'[t].woke = "deadline" /\ th[t].woke # "deadline" =>
                    /\ th[t].pc = "Pop.parked"
                    /\ deadline # "exceeded" /\ deadline' = "exceeded")
            /\ (th[t].pc = "Pop.parked" /\ deadline # "exceeded"
                    /\ deadline' = "exceeded" =>
                    th'[t].pc = "Pop.woken" /\ th'[t].woke = "deadline")
            /\ (t \in WokenByDeadline /\ Moves(t) =>
                    /\ PopReturns(t)
                    /\ lastRet'.op = "Pop" /\ lastRet'.err = DeadlineExceeded)
            /\ (th'[t].done = "stale" /\ th[t].done # "stale" =>
                    /\ th[t].pc = "Pop.select" /\ th[t].done = "current"
                    /\ deadline = "exceeded"
                    /\ lastRet'.op = "SetPopDeadline" /\ calls' = calls + 1)
            /\ (th[t].pc = "Pop.Done" /\ th'[t].pc = "Pop.select" =>
                    th'[t].done = "current")
            /\ (PopReturns(t) /\ s.whenEmpty = WhenEmptyBlock
                    /\ ~s.closed /\ IsEmpty(rq) =>
                    lastRet'.err = DeadlineExceeded)]_vars
    /\ (WokenByDeadline # {} \/ ExpiredOnWaiting)
        ~> (WokenByDeadline = {} /\ ~ExpiredOnWaiting)

\* after the buffer was filled and drained, a Pop took the stale notification,
\* found the buffer empty again, was suspended on the armed deadline and,
\* woken by its expiry, returned DeadlineExceeded
C12_Witness ==
    /\ s.whenEmpty = WhenEmptyBlock /\ ~s.closed
    /\ lastRet.op = "Pop" /\ lastRet.err = DeadlineExceeded
    /\ lastRet.woke = "deadline" /\ lastRet.vain
    /\ Len(popped) >= 1 /\ popped = accepted
    /\ deadline = "exceeded"

\* thread t's select chooses among its cases, or suspends
Chooses(t) == th[t].pc = "Pop.select" /\ th'[t].pc # "Pop.select"

\* C13: with the Block empty-policy, an expired deadline stays expired until
\* a SetPopDeadline call replaces it, and while it is expired no Pop is
\* suspended: a Pop whose select chooses on the open coordinator returns
\* DeadlineExceeded (or retries once on a pending notification), and every Pop
\* in progress eventually returns.  After SetPopDeadline cleared it (zero
\* time) or replaced it by a time to come, a Pop that enters its select gets
\* the new deadline's channel and, finding no notification, suspends (a select
\* entered before the SetPopDeadline keeps the expired channel and returns
\* DeadlineExceeded or retries); a suspended Pop leaves its select only on a
\* notification, on the close, or on the step that makes the deadline expire.
C13_DeadlineSticky ==
    /\ [](deadline = "exceeded" => Parked = {})
    /\ [][/\ (deadline = "exceeded" /\ deadline' # "exceeded" =>
                /\ lastRet'.op = "SetPopDeadline" /\ lastRet'.err = NoErr
                /\ calls' = calls + 1)
          /\ \A t \in Threads :
                /\ ( /\ Chooses(t) /\ ~s.closed
                     /\ (deadline = "exceeded" \/ th[t].done = "stale") ) =>
                        \/ PopReturns(t) /\ lastRet'.err = DeadlineExceeded
                        \/ s.available = 1 /\ th'[t].pc = "Pop.retry"
                /\ ( /\ Chooses(t) /\ ~s.closed
                     /\ deadline \in {"none", "armed"} /\ th[t].done = "current" ) =>
                        th'[t].pc = IF s.available = 1 THEN "Pop.retry"
                                                      ELSE "Pop.parked"
                /\ (th[t].pc = "Pop.Done" /\ Moves(t) =>
                        th'[t].pc = "Pop.select" /\ th'[t].done = "current")
                /\ (th[t].pc = "Pop.parked" /\ Moves(t) =>
                        \/ th'[t].pc = "Pop.retry"
                        \/ /\ th'[t].pc = "Pop.woken" /\ th'[t].woke = "closed"
                           /\ ~s.closed /\ s'.closed
                        \/ /\ th'[t].pc = "Pop.woken" /\ th'[t].woke = "deadline"
                           /\ deadline # "exceeded" /\ deadline' = "exceeded")]_vars
    /\ (deadline = "exceeded" /\ ~s.closed /\ InPop # {})
        ~> (InPop = {} \/ s.closed \/ deadline # "exceeded")

\* a Pop failed on the expired deadline, and after SetPopDeadline cleared the
\* deadline a later Pop is suspended on the empty open buffer
C13_Witness ==
    /\ lastRet.op = "Pop" /\ lastRet.err = DeadlineExceeded
    /\ deadline = "none" /\ ~s.closed
    /\ Parked # {}
    /\ IsEmpty(rq)

\* C14: with the Error empty-policy no Pop is ever in its select, and a Pop
\* returns, on the step that runs the buffer's Pop with the mutex held, exactly
\* what the buffer's Pop returned: element, length and error.
C14_ErrorPolicyDelegates ==
    /\ [](s.whenEmpty = WhenEmptyError =>
            \A t \in Threads : th[t].pc \notin (PopPcs \ {"guardedPop"}))
    /\ [][\A t \in Threads :
            (th[t].pc = "guardedPop" /\ Moves(t) /\ s.whenEmpty = WhenEmptyError) =>
                LET res == unsafeRQ_Pop(rq) IN
                /\ s.mutex = t
                /\ PopReturns(t)
                /\ rq' = res.rq
                /\ lastRet'.op = "Pop"
                /\ lastRet'.elem = res.elem
                /\ lastRet'.len = res.len
                /\ lastRet'.err = res.err]_vars

\* the threads between a Lock() and its Unlock()
LockedPcs == {"guardedPush", "guardedPop", "Close.once", "Close.rq", "Peek", "Len", "Cap",
              "String"}
Locked == {t \in Threads : th[t].pc \in LockedPcs}

\* C15: at most one thread is between Lock() and Unlock(), and it is the
\* holder of the mutex; the buffer changes only in a step of the holder.  With
\* the Error full-policy, in the order of those steps, the elements the
\* successful Pops removed are a prefix of the accepted pushed elements (each
\* pushed once), the buffer holds the rest in push order, and each successful
\* Pop returns to its caller the oldest accepted element not yet removed.
C15_Linearized ==
    /\ [](/\ Cardinality(Locked) <= 1
          /\ (s.mutex = NoThread <=> Locked = {})
          /\ (s.mutex # NoThread => Locked = {s.mutex}))
    /\ [](rq.whenFull = WhenFullError =>
            /\ Len(popped) <= Len(accepted)
            /\ popped = SubSeq(accepted, 1, Len(popped))
            /\ \A i, j \in 1..Len(accepted) : accepted[i] = accepted[j] => i = j
            /\ (~rq.closed =>
                    Contents(rq) = SubSeq(accepted, Len(popped) + 1, Len(accepted))))
    /\ [][/\ (rq' # rq => s.mutex # NoThread /\ Moves(s.mutex) /\ s'.mutex = NoThread)
          /\ \A t \in Threads :
                (PopReturns(t) /\ lastRet'.err = NoErr /\ rq.whenFull = WhenFullError) =>
                    /\ s.mutex = t
                    /\ Len(accepted) > Len(popped)
                    /\ lastRet'.elem = accepted[Len(popped) + 1]
                    /\ popped' = Append(popped, lastRet'.elem)]_vars

\* two Pops have removed the two pushed elements in push order, the second
\* one before the Push that stored its element has returned
C15_Witness ==
    /\ rq.whenFull = WhenFullError
    /\ popped = <<1, 2>> /\ accepted = popped
    /\ lastRet.op = "Pop" /\ lastRet.err = NoErr /\ lastRet.elem = 2
    /\ \E t \in Threads : th[t].pc = "Push.select"

\* C16: a thread inside a call can always take its next step, except a Pop
\* suspended in its select (and a woken Pop that retries, which needs the
\* mutex free).  A Pop is in its select only with the Block empty-policy, after
\* its locked buffer Pop failed on an empty (or closed) buffer, and never holds
\* the mutex there.  Every other step completes: the locked sections of Push,
\* Pop, Peek, Len, Cap, String and Close release the mutex (Close after its two
\* steps), Push's select returns in one step whatever the notification slot
\* holds, and SetPopDeadline returns in its only step.
C16_OnlyPopWaits ==
    /\ [](\A t \in Threads :
            /\ (th[t].pc \notin {"idle", "Pop.parked", "Pop.retry"} => ENABLED Resume(t))
            /\ (th[t].pc = "Pop.retry" /\ s.mutex = NoThread => ENABLED Resume(t))
            /\ (th[t].pc \in PopPcs \ {"guardedPop"} =>
                    s.whenEmpty = WhenEmptyBlock /\ s.mutex # t)
            /\ (th[t].pc = "Pop.parked" => ~s.closed /\ deadline # "exceeded"))
    /\ [][/\ \A t \in Threads :
                /\ (th[t].pc # "Pop.select" /\ th'[t].pc = "Pop.select" =>
                        th[t].pc = "Pop.Done")
                /\ (th[t].pc # "Pop.Done" /\ th'[t].pc = "Pop.Done" =>
                        /\ th[t].pc = "guardedPop"
                        /\ unsafeRQ_Pop(rq).err # NoErr
                        /\ (IsEmpty(rq) \/ rq.closed))
                /\ (th[t].pc # "Pop.parked" /\ th'[t].pc = "Pop.parked" =>
                        th[t].pc = "Pop.select")
                /\ (th[t].pc \in LockedPcs \ {"Close.once"} /\ Moves(t) =>
                        s.mutex = t /\ s'.mutex = NoThread)
                /\ (th[t].pc = "Close.once" /\ Moves(t) => th'[t].pc = "Close.rq")
                /\ (th[t].pc = "Push.select" /\ Moves(t) => th'[t].pc = "idle")
          /\ (calls' # calls /\ lastRet'.op = "SetPopDeadline" /\ lastRet' # lastRet =>
                /\ s' = s
                /\ \A t \in Threads : th[t].pc = "idle" => th'[t].pc = "idle")]_vars

\* a Push holds the mutex while a Pop is suspended in its select
C16_Witness ==
    /\ Parked # {}
    /\ \E t \in Threads : th[t].pc = "guardedPush" /\ s.mutex = t

\* a coordinator call that begins and returns in one step: SetPopDeadline
AtomicCall ==
    /\ calls' # calls
    /\ \A t \in Threads : th[t].pc = "idle" => th'[t].pc = "idle"

\* C17: SetPopDeadline returns Unsupported and changes nothing on a plain
\* buffer and on a coordinator built with the Error empty-policy, and returns
\* no error on a coordinator built with the Block empty-policy.  NewUnsafe
\* with an empty-policy other than Error, and NewSafe with one other than
\* Error or Block, return Unsupported and no queue; with an accepted policy
\* they return the queue and no error.
C17_PolicyValidation ==
    [][/\ (last' # last /\ last'.op = "SetPopDeadline" =>
            /\ last'.err = ErrUnsupported
            /\ rq' = rq /\ deadline' = deadline)
       /\ (AtomicCall =>
            /\ lastRet'.op = "SetPopDeadline"
            /\ (s.whenEmpty = WhenEmptyError =>
                    /\ lastRet'.err = ErrUnsupported
                    /\ deadline' = deadline /\ th' = th /\ rq' = rq)
            /\ (s.whenEmpty = WhenEmptyBlock => lastRet'.err = NoErr))
       /\ (last.op = "none" /\ last'.op = "NewUnsafe" =>
            IF last'.arg = WhenEmptyError
            THEN last'.err = NoErr /\ rq' # NoQueue /\ th' = <<>>
            ELSE last'.err = ErrUnsupported /\ rq' = NoQueue /\ th' = <<>>)
       /\ (last.op = "none" /\ last'.op = "NewSafe" =>
            IF last'.arg \in {WhenEmptyError, WhenEmptyBlock}
            THEN /\ last'.err = NoErr /\ rq' # NoQueue /\ th' # <<>>
                 /\ s'.whenEmpty = last'.arg
            ELSE /\ last'.err = ErrUnsupported /\ rq' = NoQueue /\ th' = <<>>
                 /\ s' = s)]_vars

\* SetPopDeadline returned Unsupported on a coordinator built with the Error
\* empty-policy, after a Push
C17_Witness ==
    /\ last.op = "NewSafe" /\ last.arg = WhenEmptyError /\ last.err = NoErr
    /\ lastRet.op = "SetPopDeadline" /\ lastRet.err = ErrUnsupported
    /\ deadline = "none"
    /\ Len(accepted) >= 1

\* thread t's Push hands its notification to a suspended Pop
HandsOver(t) ==
    \E u \in Threads : th[u].pc = "Pop.parked" /\ th'[u].pc = "Pop.retry"

\* C18: with the Block empty-policy, the select of a Push whose buffer push
\* failed (FullQueue, Closed) posts no notification: it leaves the slot as it
\* was and wakes no Pop.  The slot holds at most one notification, and a Push
\* that finds one pending leaves it pending.
C18_NotifyOnlyOnSuccess ==
    /\ [](s.available \in {0, 1})
    /\ [][\A t \in Threads :
            (th[t].pc = "Push.select" /\ Moves(t)) =>
                /\ (th[t].err # NoErr =>
                        s'.available = s.available /\ ~HandsOver(t))
                /\ (s.available = 1 => s'.available = 1)]_vars

\* C19: with the Block empty-policy, a Pop returns only an element, Closed or
\* DeadlineExceeded, never EmptyQueue: a Pop whose locked buffer Pop fails,
\* on its first attempt or after a notification woke it, goes (back) to its
\* select.
C19_NoEmptyUnderBlock ==
    /\ []((s.whenEmpty = WhenEmptyBlock /\ lastRet.op = "Pop") =>
            /\ lastRet.err \in {NoErr, ErrClosed, DeadlineExceeded}
            /\ (lastRet.err = NoErr => Pushed(lastRet.elem)))
    /\ [][\A t \in Threads :
            ( /\ s.whenEmpty = WhenEmptyBlock
              /\ th[t].pc = "guardedPop" /\ Moves(t)
              /\ unsafeRQ_Pop(rq).err # NoErr ) =>
                th'[t].pc = "Pop.Done" /\ lastRet' = lastRet]_vars

\* a Pop woken by a notification found the buffer empty, another Pop having
\* taken the element, and is suspended again
C19_Witness ==
    /\ s.whenEmpty = WhenEmptyBlock /\ ~s.closed
    /\ \E t \in Threads : th[t].pc = "Pop.parked" /\ th[t].woke = "available"
    /\ IsEmpty(rq)
    /\ Len(popped) >= 1

\* C22: with the Block empty-policy, on an open coordinator with no deadline,
\* whenever the buffer holds an element and some Pop has observed it empty and
\* not returned, eventually the buffer is empty or no such Pop is left (a Pop
\* has returned), unless the coordinator is closed or a deadline is set.
C22_NoStrandedPop ==
    ( /\ s.whenEmpty = WhenEmptyBlock /\ ~s.closed /\ deadline = "none"
      /\ ~IsEmpty(rq)
      /\ Waiting # {} )
    ~> (IsEmpty(rq) \/ Waiting = {} \/ s.closed \/ deadline # "none")

\* the step on which thread t's Push returns
PushReturns(t) == th[t].pc \in {"guardedPush", "Push.select"} /\ th'[t].pc = "idle"

\* thread t's Push, returning on this step, has written its element to the buffer
PushStored(t) ==
    \/ th[t].pc = "Push.select" /\ th[t].err = NoErr
    \/ th[t].pc = "guardedPush" /\ accepted' # accepted

\* C23: a Push of the coordinator that returns an error (Closed, FullQueue) has
\* not written its element to the buffer, so the element is in no state handed
\* to the on-close finalizer, whatever runs between its locked buffer push and
\* its select.
C23_FailedPushStoresNothing ==
    [][\A t \in Threads :
          (PushReturns(t) /\ lastRet'.op = "Push" /\ lastRet'.err # NoErr)
              => ~PushStored(t)]_vars

\* thread t runs the locked pop attempt of its Pop on this step
PopAttempt(t) == th[t].pc = "guardedPop" /\ Moves(t)

\* the pushed elements that are in the backing array and were not popped
Live ==
    {e \in {rq.data[i] : i \in 1..Len(rq.data)} :
        Pushed(e) /\ \A j \in 1..Len(popped) : popped[j] # e}

\* the oldest of them (the pushes carry increasing numbers)
Oldest == IF Live = {} THEN Zero ELSE CHOOSE e \in Live : \A f \in Live : e <= f

\* C24: with the Block empty-policy on an open coordinator, a Pop whose locked
\* pop attempt finds an element stored returns on that very step, with no
\* error and the oldest element stored, whether or not a notification is
\* pending and whatever the deadline, and leaves both as they were; and a Pop
\* returns DeadlineExceeded only when the buffer is empty.
C24_NonEmptyPopReturnsAtOnce ==
    [][\A t \in Threads :
          (s.whenEmpty = WhenEmptyBlock /\ ~s.closed /\ ~rq.closed) =>
              /\ (PopAttempt(t) /\ ~IsEmpty(rq) =>
                      /\ th'[t].pc = "idle"
                      /\ lastRet'.op = "Pop" /\ lastRet'.err = NoErr
                      /\ lastRet'.elem = Oldest
                      /\ s'.available = s.available
                      /\ deadline' = deadline)
              /\ (PopReturns(t) /\ lastRet'.op = "Pop"
                      /\ lastRet'.err = DeadlineExceeded => IsEmpty(rq))]_vars

=============================================================================
